---- MODULE Spec2Model ----
(***************************************************************************)
(* Model of cc/core/config.cc: Config::GetTinkKeyTypeEntry,               *)
(* Config::Validate, Config::Register and Config::RegisterWrapper, and of *)
(* the process-wide registry the family configs (MacConfig, AeadConfig,   *)
(* ...) register into.                                                    *)
(*                                                                         *)
(* primitive_name is a sequence of one-character strings, so that         *)
(* absl::AsciiStrToLower is computed character by character; type_url,    *)
(* catalogue_name and key_proto_name are strings (only emptiness and      *)
(* concatenation matter for them).                                        *)
(***************************************************************************)
EXTENDS Naturals, Sequences, FiniteSets

VARIABLES
    registry,        \* the family configs registered in the process-wide registry
    pc,              \* per caller: position of the caller's current call
    op,              \* per caller: the operation called last
    cfg,             \* per caller: RegistryConfig passed to Register
    idx,             \* per caller: index of the entry the loop of Register is at
    primitive_name,  \* per caller: Register's local lower-cased primitive_name
    status,          \* per caller: the util::Status the call holds / returned
    log,             \* per caller: registry actions invoked by the current call
    warg,            \* per caller: argument of a direct RegisterWrapper call
    entry,           \* per caller: KeyTypeEntry built or validated last
    args,            \* per caller: arguments of the last GetTinkKeyTypeEntry call
    fresh,           \* TRUE as long as nothing but RegisterWrapper was ever called
    base,            \* per caller: registry when the first call of a retry chain began
    mode,            \* per caller: "first", or how a retry relates to the call before
    prev             \* per caller: how the call before a retry ended

vars == <<registry, pc, op, cfg, idx, primitive_name, status, log, warg,
          entry, args, fresh, base, mode, prev>>

----------------------------------------------------------------------------
(* Bounds *)

MaxEntries == 3

NumCallers == 2

Procs == 1..NumCallers

Main == CHOOSE p \in Procs : \A q \in Procs : p <= q

----------------------------------------------------------------------------
(* Strings of characters: absl::AsciiStrToLower *)

UpperCase ==
    <<"A","B","C","D","E","F","G","H","I","J","K","L","M",
      "N","O","P","Q","R","S","T","U","V","W","X","Y","Z">>

LowerCase ==
    <<"a","b","c","d","e","f","g","h","i","j","k","l","m",
      "n","o","p","q","r","s","t","u","v","w","x","y","z">>

\* A lower-casing that leaves its argument as it is.
LowerNothing(s) == s

AsciiToLower(c) ==
    IF \E i \in 1..26 : UpperCase[i] = c
    THEN LowerCase[CHOOSE i \in 1..26 : UpperCase[i] = c]
    ELSE c

AsciiStrToLower(s) == [i \in 1..Len(s) |-> AsciiToLower(s[i])]

----------------------------------------------------------------------------
(* util::Status *)

Status(code, msg, name, lower) ==
    [code |-> code, msg |-> msg, name |-> name, lower |-> lower]

OK == Status("OK", "", <<>>, <<>>)

IsOk(st) == st.code = "OK"

----------------------------------------------------------------------------
(* KeyTypeEntry, GetTinkKeyTypeEntry, Validate *)

KeyTypeEntry(catalogue, primitive, url, version, allowed) ==
    [catalogue_name |-> catalogue, primitive_name |-> primitive,
     type_url |-> url, key_manager_version |-> version,
     new_key_allowed |-> allowed]

TypeUrlPrefix == "type.googleapis.com/google.crypto.tink."

\* new_key_allowed is left at the default of a new KeyTypeEntry.
GetTinkKeyTypeEntryNoAllowed(catalogue, primitive, key_proto_name, version, allowed) ==
    KeyTypeEntry(catalogue, primitive, TypeUrlPrefix \o key_proto_name,
                 version, FALSE)

\* type_url is key_proto_name without the prefix.
GetTinkKeyTypeEntryNoPrefix(catalogue, primitive, key_proto_name, version, allowed) ==
    KeyTypeEntry(catalogue, primitive, key_proto_name, version, allowed)

GetTinkKeyTypeEntry(catalogue, primitive, key_proto_name, version, allowed) ==
    KeyTypeEntry(catalogue, primitive, TypeUrlPrefix \o key_proto_name,
                 version, allowed)

MissingTypeUrl == Status("INVALID_ARGUMENT", "Missing type_url.", <<>>, <<>>)

MissingPrimitiveName ==
    Status("INVALID_ARGUMENT", "Missing primitive_name.", <<>>, <<>>)

MissingCatalogueName ==
    Status("INVALID_ARGUMENT", "Missing catalogue_name.", <<>>, <<>>)

\* The three checks in another order.
ValidateCatalogueFirst(e) ==
    IF e.catalogue_name = "" THEN MissingCatalogueName
    ELSE IF e.primitive_name = <<>> THEN MissingPrimitiveName
    ELSE IF e.type_url = "" THEN MissingTypeUrl
    ELSE OK

Validate(e) ==
    IF e.type_url = "" THEN MissingTypeUrl
    ELSE IF e.primitive_name = <<>> THEN MissingPrimitiveName
    ELSE IF e.catalogue_name = "" THEN MissingCatalogueName
    ELSE OK

----------------------------------------------------------------------------
(* The lower-case names the dispatch chains compare with *)

mac == <<"m","a","c">>

aead == <<"a","e","a","d">>

deterministicaead ==
    <<"d","e","t","e","r","m","i","n","i","s","t","i","c","a","e","a","d">>

hybridencrypt == <<"h","y","b","r","i","d","e","n","c","r","y","p","t">>

hybriddecrypt == <<"h","y","b","r","i","d","d","e","c","r","y","p","t">>

publickeysign == <<"p","u","b","l","i","c","k","e","y","s","i","g","n">>

publickeyverify ==
    <<"p","u","b","l","i","c","k","e","y","v","e","r","i","f","y">>

streamingaead == <<"s","t","r","e","a","m","i","n","g","a","e","a","d">>

NoConfig == "none"

FamilyConfigs ==
    {"MacConfig", "AeadConfig", "DeterministicAeadConfig", "HybridConfig",
     "SignatureConfig", "StreamingAeadConfig"}

\* The chain with the streamingaead test dropped: its branch is the else.
RegisterDispatchNoElse(lname) ==
    IF lname = mac THEN "MacConfig"
    ELSE IF lname = aead THEN "AeadConfig"
    ELSE IF lname = deterministicaead THEN "DeterministicAeadConfig"
    ELSE IF lname = hybridencrypt \/ lname = hybriddecrypt THEN "HybridConfig"
    ELSE IF lname = publickeysign \/ lname = publickeyverify
         THEN "SignatureConfig"
    ELSE "StreamingAeadConfig"

\* The chain comparing with hyphenated names of the kinds.
RegisterDispatchHyphen(lname) ==
    IF lname = mac THEN "MacConfig"
    ELSE IF lname = aead THEN "AeadConfig"
    ELSE IF lname = <<"d","e","t","e","r","m","i","n","i","s","t","i","c","-","a","e","a","d">>
         THEN "DeterministicAeadConfig"
    ELSE IF lname = <<"h","y","b","r","i","d","-","e","n","c","r","y","p","t">>
            \/ lname = <<"h","y","b","r","i","d","-","d","e","c","r","y","p","t">>
         THEN "HybridConfig"
    ELSE IF lname = <<"p","u","b","l","i","c","-","k","e","y","-","s","i","g","n">>
            \/ lname = <<"p","u","b","l","i","c","-","k","e","y","-","v","e","r","i","f","y">>
         THEN "SignatureConfig"
    ELSE IF lname = <<"s","t","r","e","a","m","i","n","g","-","a","e","a","d">>
         THEN "StreamingAeadConfig"
    ELSE NoConfig

\* The if/else-if chain of Config::Register: the family config whose
\* Register() is called for a lower-cased name, NoConfig for the else branch.
RegisterDispatch(lname) ==
    IF lname = mac THEN "MacConfig"
    ELSE IF lname = aead THEN "AeadConfig"
    ELSE IF lname = deterministicaead THEN "DeterministicAeadConfig"
    ELSE IF lname = hybridencrypt \/ lname = hybriddecrypt THEN "HybridConfig"
    ELSE IF lname = publickeysign \/ lname = publickeyverify
         THEN "SignatureConfig"
    ELSE IF lname = streamingaead THEN "StreamingAeadConfig"
    ELSE NoConfig

\* The else branch of Config::Register.
NonStandardPrimitive(orig, lname) ==
    Status("INVALID_ARGUMENT",
           "A non-standard primitive, use directly Config::Register<P>(KeyTypeEntry&).",
           orig, lname)

\* The chain with the hybriddecrypt test in the signature branch.
WrapperDispatchSwapped(name) ==
    IF name = mac THEN "MacConfig"
    ELSE IF name = aead THEN "AeadConfig"
    ELSE IF name = deterministicaead THEN "DeterministicAeadConfig"
    ELSE IF name = hybridencrypt THEN "HybridConfig"
    ELSE IF name = publickeysign \/ name = publickeyverify \/ name = hybriddecrypt
         THEN "SignatureConfig"
    ELSE IF name = streamingaead THEN "StreamingAeadConfig"
    ELSE NoConfig

\* The chain with the aead test dropped.
WrapperDispatchNoAead(name) ==
    IF name = mac THEN "MacConfig"
    ELSE IF name = deterministicaead THEN "DeterministicAeadConfig"
    ELSE IF name = hybridencrypt \/ name = hybriddecrypt THEN "HybridConfig"
    ELSE IF name = publickeysign \/ name = publickeyverify
         THEN "SignatureConfig"
    ELSE IF name = streamingaead THEN "StreamingAeadConfig"
    ELSE NoConfig

\* The chain run on its argument in lower case.
WrapperDispatchLowered(name) == RegisterDispatch(AsciiStrToLower(name))

\* The chain calling the wrapper registration of the signature family for
\* the MAC family.
WrapperDispatchOtherAction(name) ==
    IF name = mac THEN "SignatureConfig"
    ELSE RegisterDispatch(name)

\* The if/else-if chain of Config::RegisterWrapper; its argument is compared
\* as it is given.
WrapperDispatch(name) ==
    IF name = mac THEN "MacConfig"
    ELSE IF name = aead THEN "AeadConfig"
    ELSE IF name = deterministicaead THEN "DeterministicAeadConfig"
    ELSE IF name = hybridencrypt \/ name = hybriddecrypt THEN "HybridConfig"
    ELSE IF name = publickeysign \/ name = publickeyverify
         THEN "SignatureConfig"
    ELSE IF name = streamingaead THEN "StreamingAeadConfig"
    ELSE NoConfig

\* The else branch of Config::RegisterWrapper.
NonStandardWrapper(name) ==
    Status("INVALID_ARGUMENT",
           "Cannot register primitive wrapper for non-standard primitive (call Registry::RegisterPrimitiveWrapper directly)",
           name, <<>>)

----------------------------------------------------------------------------
(* The process-wide registry behind MacConfig::Register(), ...            *)
(* registry holds the family configs whose Register() has succeeded.      *)

RegistryErrors ==
    {Status("INTERNAL", "family registration failed", <<>>, <<>>),
     Status("ALREADY_EXISTS", "family registration refused", <<>>, <<>>)}

\* What one invocation of family's Register() may return.  An idempotent
\* registry accepts the registration of a family it already holds.
Outcomes(reg, family, idempotent) ==
    IF idempotent /\ family \in reg THEN {OK} ELSE {OK} \cup RegistryErrors

\* The registry after family's Register() returned st: an atomic action that
\* adds the family when it succeeds and changes nothing when it fails.
FamilyRegister(reg, family, st) ==
    IF IsOk(st) THEN reg \cup {family} ELSE reg

\* An invocation as the call log records it.
Invocation(site, i, family, st) ==
    [site |-> site, entry |-> i, action |-> family, status |-> st]

KeyManagerSite == "Register"

WrapperSite == "RegisterWrapper"

----------------------------------------------------------------------------
(* Inputs *)

Aead == <<"A","e","a","d">>

CustomMac == <<"C","u","s","t","o","m","M","a","c">>

KnownNames ==
    { mac,
      <<"M","A","C">>,
      aead,
      Aead,
      <<"D","e","t","e","r","m","i","n","i","s","t","i","c","A","e","a","d">>,
      <<"H","y","b","r","i","d","E","n","c","r","y","p","t">>,
      hybriddecrypt,
      <<"H","Y","B","R","I","D","D","E","C","R","Y","P","T">>,
      <<"P","u","b","l","i","c","K","e","y","S","i","g","n">>,
      <<"p","u","b","l","i","c","K","E","Y","s","i","g","n">>,
      publickeyverify,
      <<"P","u","b","l","i","c","K","e","y","V","e","r","i","f","y">>,
      <<"S","t","r","e","a","m","i","n","g","A","e","a","d">>,
      streamingaead }

OtherNames ==
    { CustomMac,
      <<>>,
      <<"m","a","c"," ">>,
      <<"a","e","a","d","s">>,
      <<"d","e","t","e","r","m","i","n","i","s","t","i","c","-","a","e","a","d">> }

PrimitiveNames == KnownNames \cup OtherNames

\* The names of the entries of a configuration of several entries.
BatchNames == {Aead, hybriddecrypt, CustomMac}

SomeUrl == TypeUrlPrefix \o "AesGcmKey"

EntryOf(name) == KeyTypeEntry("SomeCatalogue", name, SomeUrl, 0, TRUE)

SeqsUpTo(S, n) == UNION { [1..k -> S] : k \in 0..n }

\* The configurations Register is called with: every name alone, and every
\* batch of up to MaxEntries entries over BatchNames.
Configs ==
    { <<EntryOf(nm)>> : nm \in PrimitiveNames }
    \cup { [i \in 1..Len(ns) |-> EntryOf(ns[i])] : ns \in SeqsUpTo(BatchNames, MaxEntries) }

\* The arguments of a direct RegisterWrapper call.
WrapperNames ==
    PrimitiveNames
    \cup {mac, aead, deterministicaead, hybridencrypt, hybriddecrypt,
          publickeysign, publickeyverify, streamingaead}

\* The descriptors Validate is called with.
Descriptors ==
    { KeyTypeEntry(c, nm, u, 0, a) :
        c \in {"", "SomeCatalogue"}, nm \in {<<>>, Aead, CustomMac},
        u \in {"", SomeUrl}, a \in BOOLEAN }

NoEntry == KeyTypeEntry("", <<>>, "", 0, FALSE)

NoArgs ==
    [catalogue_name |-> "", primitive_name |-> <<>>, key_proto_name |-> "",
     key_manager_version |-> 0, new_key_allowed |-> FALSE]

\* The arguments GetTinkKeyTypeEntry is called with.
BuildArgs ==
    [catalogue_name : {"", "SomeCatalogue"}, primitive_name : {<<>>, Aead},
     key_proto_name : {"", "AesGcmKey"}, key_manager_version : {0, 1},
     new_key_allowed : BOOLEAN]

NoPrev == [pc |-> "Idle", idx |-> 0, calls |-> 0, registry |-> {}]

----------------------------------------------------------------------------
(* Initial state: every caller idle, nothing registered *)

\* Every caller idle, the registry holding the families reg.
Idle(reg) ==
    /\ registry = reg
    /\ pc = [p \in Procs |-> "Idle"]
    /\ op = [p \in Procs |-> "none"]
    /\ cfg = [p \in Procs |-> <<>>]
    /\ idx = [p \in Procs |-> 0]
    /\ primitive_name = [p \in Procs |-> <<>>]
    /\ status = [p \in Procs |-> OK]
    /\ log = [p \in Procs |-> <<>>]
    /\ warg = [p \in Procs |-> <<>>]
    /\ entry = [p \in Procs |-> NoEntry]
    /\ args = [p \in Procs |-> NoArgs]
    /\ fresh = TRUE
    /\ base = [p \in Procs |-> {}]
    /\ mode = [p \in Procs |-> "first"]
    /\ prev = [p \in Procs |-> NoPrev]

Init == Idle({})

\* A caller not inside a call.
Quiescent(p) == pc[p] \in {"Idle", "Succeeded", "Failed", "Returned"}

----------------------------------------------------------------------------
(* Config::Register *)

\* A caller calls Register(c): the loop is at the first entry, or over when
\* the configuration has no entry.
StartRegister(p, c) ==
    /\ op' = [op EXCEPT ![p] = "Register"]
    /\ cfg' = [cfg EXCEPT ![p] = c]
    /\ idx' = [idx EXCEPT ![p] = IF Len(c) = 0 THEN 0 ELSE 1]
    /\ pc' = [pc EXCEPT ![p] = IF Len(c) = 0 THEN "Succeeded" ELSE "Processing"]
    /\ primitive_name' = [primitive_name EXCEPT ![p] = <<>>]
    /\ status' = [status EXCEPT ![p] = OK]
    /\ log' = [log EXCEPT ![p] = <<>>]
    /\ warg' = [warg EXCEPT ![p] = <<>>]
    /\ entry' = [entry EXCEPT ![p] = NoEntry]
    /\ args' = [args EXCEPT ![p] = NoArgs]
    /\ fresh' = FALSE
    /\ UNCHANGED registry

RegisterCall(p) ==
    /\ Quiescent(p)
    /\ \E c \in Configs : StartRegister(p, c)
    /\ base' = [base EXCEPT ![p] = registry]
    /\ mode' = [mode EXCEPT ![p] = "first"]
    /\ prev' = [prev EXCEPT ![p] = NoPrev]

\* A failed key-manager step is tried again.
AfterKeyManagerRetry(st) == IF ~IsOk(st) THEN "Processing" ELSE "Wrapper"

\* The key-manager step's status is not looked at.
AfterKeyManagerNoCheck(st) == "Wrapper"

\* `if (!status.ok()) return status;` after the family's Register().
AfterKeyManager(st) == IF ~IsOk(st) THEN "Failed" ELSE "Wrapper"

\* The wrapper step's status is looked at only after the last entry.
AfterWrapperNoCheck(st, i, n) ==
    IF i < n THEN [pc |-> "Processing", idx |-> i + 1]
    ELSE [pc |-> IF IsOk(st) THEN "Succeeded" ELSE "Failed", idx |-> i]

\* The loop does not advance to the next entry.
AfterWrapperStay(st, i, n) ==
    IF ~IsOk(st) THEN [pc |-> "Failed", idx |-> i]
    ELSE IF i < n THEN [pc |-> "Processing", idx |-> i]
    ELSE [pc |-> "Succeeded", idx |-> i]

\* `if (!status.ok()) return status;` after RegisterWrapper, the loop's
\* advance to the next entry, and `return util::Status::OK` after the last
\* one: where the call is, and at which entry, after RegisterWrapper
\* returned st for entry i of n.
AfterWrapper(st, i, n) ==
    IF ~IsOk(st) THEN [pc |-> "Failed", idx |-> i]
    ELSE IF i < n THEN [pc |-> "Processing", idx |-> i + 1]
    ELSE [pc |-> "Succeeded", idx |-> i]

\* The entry is validated before it is dispatched.
KeyManagerResultsValidated(reg, e, idempotent) ==
    LET lname == AsciiStrToLower(e.primitive_name)
    IN  IF ~IsOk(Validate(e)) THEN {Validate(e)}
        ELSE IF RegisterDispatch(lname) = NoConfig
        THEN {NonStandardPrimitive(e.primitive_name, lname)}
        ELSE Outcomes(reg, RegisterDispatch(lname), idempotent)

\* What the first half of the loop body may return for an entry: the else
\* branch's error without a registry call, or what the family's Register()
\* returns.
KeyManagerResults(reg, e, idempotent) ==
    LET lname == AsciiStrToLower(e.primitive_name)
    IN  IF RegisterDispatch(lname) = NoConfig
        THEN {NonStandardPrimitive(e.primitive_name, lname)}
        ELSE Outcomes(reg, RegisterDispatch(lname), idempotent)

\* What RegisterWrapper(name) may return.
WrapperResults(reg, name, idempotent) ==
    IF WrapperDispatch(name) = NoConfig
    THEN {NonStandardWrapper(name)}
    ELSE Outcomes(reg, WrapperDispatch(name), idempotent)

\* Lower-casing, dispatch and the family's Register() for the entry at idx.
KeyManagerStep(p, idempotent) ==
    /\ pc[p] = "Processing"
    /\ LET e == cfg[p][idx[p]]
           lname == AsciiStrToLower(e.primitive_name)
           family == RegisterDispatch(lname)
       IN  \E st \in KeyManagerResults(registry, e, idempotent) :
             /\ primitive_name' = [primitive_name EXCEPT ![p] = lname]
             /\ status' = [status EXCEPT ![p] = st]
             /\ registry' = IF family = NoConfig THEN registry
                            ELSE FamilyRegister(registry, family, st)
             /\ log' = IF family = NoConfig THEN log
                       ELSE [log EXCEPT ![p] =
                               Append(@, Invocation(KeyManagerSite, idx[p], family, st))]
             /\ pc' = [pc EXCEPT ![p] = AfterKeyManager(st)]
    /\ UNCHANGED <<op, cfg, idx, warg, entry, args, fresh, base, mode, prev>>

\* `status = RegisterWrapper(primitive_name)` for the entry at idx, and the
\* end of the loop body.
WrapperStep(p, idempotent) ==
    /\ pc[p] = "Wrapper"
    /\ LET name == primitive_name[p]
           family == WrapperDispatch(name)
           n == Len(cfg[p])
       IN  \E st \in WrapperResults(registry, name, idempotent) :
             /\ status' = [status EXCEPT ![p] = st]
             /\ registry' = IF family = NoConfig THEN registry
                            ELSE FamilyRegister(registry, family, st)
             /\ log' = IF family = NoConfig THEN log
                       ELSE [log EXCEPT ![p] =
                               Append(@, Invocation(WrapperSite, idx[p], family, st))]
             /\ pc' = [pc EXCEPT ![p] = AfterWrapper(st, idx[p], n).pc]
             /\ idx' = [idx EXCEPT ![p] = AfterWrapper(st, idx[p], n).idx]
    /\ UNCHANGED <<op, cfg, primitive_name, warg, entry, args, fresh,
                   base, mode, prev>>

----------------------------------------------------------------------------
(* Config::RegisterWrapper called directly, Config::Validate,             *)
(* Config::GetTinkKeyTypeEntry                                            *)

\* What a call other than Register leaves of the caller's earlier call.
Forget(p) ==
    /\ cfg' = [cfg EXCEPT ![p] = <<>>]
    /\ idx' = [idx EXCEPT ![p] = 0]
    /\ primitive_name' = [primitive_name EXCEPT ![p] = <<>>]
    /\ base' = [base EXCEPT ![p] = {}]
    /\ mode' = [mode EXCEPT ![p] = "first"]
    /\ prev' = [prev EXCEPT ![p] = NoPrev]

\* A caller's RegisterWrapper(name) returns st.
WrapperReturns(p, name, st) ==
    /\ Quiescent(p)
    /\ LET family == WrapperDispatch(name)
       IN  /\ warg' = [warg EXCEPT ![p] = name]
           /\ status' = [status EXCEPT ![p] = st]
           /\ registry' = IF family = NoConfig THEN registry
                          ELSE FamilyRegister(registry, family, st)
           /\ log' = [log EXCEPT ![p] =
                        IF family = NoConfig THEN <<>>
                        ELSE <<Invocation(WrapperSite, 0, family, st)>>]
    /\ op' = [op EXCEPT ![p] = "RegisterWrapper"]
    /\ pc' = [pc EXCEPT ![p] = "Returned"]
    /\ entry' = [entry EXCEPT ![p] = NoEntry]
    /\ args' = [args EXCEPT ![p] = NoArgs]
    /\ Forget(p)
    /\ UNCHANGED fresh

RegisterWrapperCall(p, idempotent) ==
    \E name \in WrapperNames :
      \E st \in WrapperResults(registry, name, idempotent) :
        WrapperReturns(p, name, st)

\* Validate of a descriptor that also registers the AEAD family.
ValidateCallRegistering(p) ==
    /\ Quiescent(p)
    /\ \E d \in Descriptors :
         /\ entry' = [entry EXCEPT ![p] = d]
         /\ status' = [status EXCEPT ![p] = Validate(d)]
    /\ op' = [op EXCEPT ![p] = "Validate"]
    /\ pc' = [pc EXCEPT ![p] = "Returned"]
    /\ log' = [log EXCEPT ![p] = <<>>]
    /\ warg' = [warg EXCEPT ![p] = <<>>]
    /\ args' = [args EXCEPT ![p] = NoArgs]
    /\ Forget(p)
    /\ fresh' = FALSE
    /\ registry' = registry \cup {"AeadConfig"}

\* Validate(d) of a descriptor the caller wrote itself.
ValidateCall(p) ==
    /\ Quiescent(p)
    /\ \E d \in Descriptors :
         /\ entry' = [entry EXCEPT ![p] = d]
         /\ status' = [status EXCEPT ![p] = Validate(d)]
    /\ op' = [op EXCEPT ![p] = "Validate"]
    /\ pc' = [pc EXCEPT ![p] = "Returned"]
    /\ log' = [log EXCEPT ![p] = <<>>]
    /\ warg' = [warg EXCEPT ![p] = <<>>]
    /\ args' = [args EXCEPT ![p] = NoArgs]
    /\ Forget(p)
    /\ fresh' = FALSE
    /\ UNCHANGED registry

\* GetTinkKeyTypeEntry(a): the caller holds the entry built.
BuildCall(p) ==
    /\ Quiescent(p)
    /\ \E a \in BuildArgs :
         /\ args' = [args EXCEPT ![p] = a]
         /\ entry' = [entry EXCEPT ![p] =
                        GetTinkKeyTypeEntry(a.catalogue_name, a.primitive_name,
                                            a.key_proto_name, a.key_manager_version,
                                            a.new_key_allowed)]
    /\ op' = [op EXCEPT ![p] = "GetTinkKeyTypeEntry"]
    /\ pc' = [pc EXCEPT ![p] = "Returned"]
    /\ status' = [status EXCEPT ![p] = OK]
    /\ log' = [log EXCEPT ![p] = <<>>]
    /\ warg' = [warg EXCEPT ![p] = <<>>]
    /\ Forget(p)
    /\ fresh' = FALSE
    /\ UNCHANGED registry

\* Validate of the entry GetTinkKeyTypeEntry has just built.
ValidateBuilt(p) ==
    /\ pc[p] = "Returned"
    /\ op[p] = "GetTinkKeyTypeEntry"
    /\ status' = [status EXCEPT ![p] = Validate(entry[p])]
    /\ op' = [op EXCEPT ![p] = "ValidateBuilt"]
    /\ UNCHANGED <<registry, pc, cfg, idx, primitive_name, log, warg, entry,
                   args, fresh, base, mode, prev>>

----------------------------------------------------------------------------
(* One caller, a registry that may fail any invocation *)

Next ==
    \E p \in {Main} :
        \/ RegisterCall(p)
        \/ KeyManagerStep(p, FALSE)
        \/ WrapperStep(p, FALSE)
        \/ RegisterWrapperCall(p, FALSE)
        \/ ValidateCall(p)
        \/ BuildCall(p)
        \/ ValidateBuilt(p)

Spec == Init /\ [][Next]_vars

\* A step of the loop of Register.  Register is synchronous code whose thread
\* keeps running and the family configs' Register() return: a call that can
\* take a step takes it.
RegisterStep(p) == KeyManagerStep(p, FALSE) \/ WrapperStep(p, FALSE)

\* One Register call, followed to its end.
FirstRegisterCall(p) == op[p] = "none" /\ RegisterCall(p)

RegisterNext ==
    \E p \in {Main} :
        \/ FirstRegisterCall(p)
        \/ KeyManagerStep(p, FALSE)
        \/ WrapperStep(p, FALSE)

\* The registry as the process starts with it, or as earlier calls that
\* registered every family have left it.
LiveInit == \E reg \in {{}, FamilyConfigs} : Idle(reg)

LiveSpec == LiveInit /\ [][RegisterNext]_vars /\ WF_vars(RegisterStep(Main))

----------------------------------------------------------------------------
(* What the properties below speak of *)

\* The names of the known set, in lower case, and the family config each
\* resolves to.
ClaimNames ==
    <<mac, aead, deterministicaead, hybridencrypt, hybriddecrypt,
      publickeysign, publickeyverify, streamingaead>>

ClaimFamilies ==
    <<"MacConfig", "AeadConfig", "DeterministicAeadConfig", "HybridConfig",
      "HybridConfig", "SignatureConfig", "SignatureConfig",
      "StreamingAeadConfig">>

\* Two characters that differ at most in letter case.
SameLetter(a, b) ==
    a = b \/ \E k \in 1..26 : {a, b} = {UpperCase[k], LowerCase[k]}

EqualsIgnoreCase(s, t) ==
    Len(s) = Len(t) /\ \A i \in 1..Len(s) : SameLetter(s[i], t[i])

ClaimKnown(name) ==
    \E k \in 1..Len(ClaimNames) : EqualsIgnoreCase(name, ClaimNames[k])

ClaimFamily(name) ==
    ClaimFamilies[CHOOSE k \in 1..Len(ClaimNames) :
                    EqualsIgnoreCase(name, ClaimNames[k])]

ClaimValid(e) ==
    e.type_url # "" /\ e.primitive_name # <<>> /\ e.catalogue_name # ""

\* The positions in p's call log of the invocations for entry j at a site.
InvocationsOf(p, j, site) ==
    {k \in 1..Len(log[p]) : log[p][k].entry = j /\ log[p][k].site = site}

InRegister(p) == op[p] = "Register"

----------------------------------------------------------------------------
\* C1: in a Register call, an entry that is valid and whose primitive_name is,
\* ignoring case, one of the eight known names gets, once the loop has reached
\* and completed it, exactly one invocation from the key-manager step and
\* exactly one from the wrapper step, both of the family the name resolves
\* to, never more than one of either, and when both succeed the entry is not
\* where the call fails: after the last entry Register returns OK.
C1_OneKeyManagerOneWrapper ==
    \A p \in Procs : InRegister(p) =>
      \A j \in 1..Len(cfg[p]) :
        (ClaimValid(cfg[p][j]) /\ ClaimKnown(cfg[p][j].primitive_name)) =>
          LET km == InvocationsOf(p, j, KeyManagerSite)
              wr == InvocationsOf(p, j, WrapperSite)
              fam == ClaimFamily(cfg[p][j].primitive_name)
              bothOk == /\ Cardinality(km) = 1 /\ Cardinality(wr) = 1
                        /\ \A k \in km \cup wr : IsOk(log[p][k].status)
          IN  /\ Cardinality(km) <= 1 /\ Cardinality(wr) <= 1
              /\ \A k \in km \cup wr : log[p][k].action = fam
              /\ (j < idx[p] \/ pc[p] = "Succeeded") => bothOk
              /\ (j = idx[p] /\ pc[p] = "Wrapper") =>
                   (Cardinality(km) = 1 /\ Cardinality(wr) = 0)
              /\ (j = idx[p] /\ pc[p] = "Failed") =>
                   (Cardinality(km) = 1 /\ ~bothOk)
              /\ (bothOk /\ j = Len(cfg[p])) =>
                   (pc[p] = "Succeeded" /\ status[p] = OK)

\* A call on <<Aead, hybriddecrypt>> that has succeeded.
C1_Witness ==
    /\ InRegister(Main) /\ pc[Main] = "Succeeded"
    /\ Len(cfg[Main]) = 2
    /\ cfg[Main][1].primitive_name = Aead
    /\ cfg[Main][2].primitive_name = hybriddecrypt
    /\ Len(log[Main]) = 4

----------------------------------------------------------------------------
\* The first failing step of a failed call: the else branch for the entry at
\* idx (no invocation for it), or the last invocation logged.
FailedAtDispatch(p) ==
    /\ InvocationsOf(p, idx[p], KeyManagerSite) = {}
    /\ InvocationsOf(p, idx[p], WrapperSite) = {}

LastInvocation(p) == log[p][Len(log[p])]

\* C2: when a Register call has failed at entry idx, it returns the failure
\* of that entry's failing step, both steps of every earlier entry were
\* invoked with success and their families are in the registry, and no
\* registry action was invoked for any later entry; and a family once in the
\* registry stays in it (no rollback).
C2_State ==
    \A p \in Procs : (InRegister(p) /\ pc[p] = "Failed") =>
      /\ idx[p] \in 1..Len(cfg[p])
      /\ ~IsOk(status[p])
      /\ IF FailedAtDispatch(p)
         THEN /\ ~ClaimKnown(cfg[p][idx[p]].primitive_name)
              /\ status[p].code = "INVALID_ARGUMENT"
              /\ status[p].name = cfg[p][idx[p]].primitive_name
         ELSE /\ LastInvocation(p).entry = idx[p]
              /\ status[p] = LastInvocation(p).status
      /\ \A j \in 1..(idx[p] - 1) :
           /\ \E k \in InvocationsOf(p, j, KeyManagerSite) :
                IsOk(log[p][k].status) /\ log[p][k].action \in registry
           /\ \E k \in InvocationsOf(p, j, WrapperSite) :
                IsOk(log[p][k].status) /\ log[p][k].action \in registry
           /\ ClaimFamily(cfg[p][j].primitive_name) \in registry
      /\ \A k \in 1..Len(log[p]) : log[p][k].entry <= idx[p]

C2_FailFastNoRollback ==
    /\ []C2_State
    /\ [][registry \subseteq registry']_vars

\* Three entries, the second one's family registration fails.
C2_Witness ==
    /\ InRegister(Main) /\ pc[Main] = "Failed"
    /\ Len(cfg[Main]) = 3 /\ idx[Main] = 2
    /\ Len(log[Main]) = 3
    /\ ~IsOk(log[Main][3].status)
    /\ "AeadConfig" \in registry

----------------------------------------------------------------------------
\* C3: an entry whose primitive_name is not, ignoring case, in the known set
\* is never passed over: the loop never gets beyond it, no registry action is
\* invoked for it, and the call fails at it with the invalid-argument error
\* of Register's else branch, which names the entry's primitive_name.
C3_UnknownPrimitive ==
    \A p \in Procs : InRegister(p) =>
      \A j \in 1..Len(cfg[p]) :
        ~ClaimKnown(cfg[p][j].primitive_name) =>
          /\ idx[p] <= j
          /\ pc[p] # "Succeeded"
          /\ \A k \in 1..Len(log[p]) : log[p][k].entry # j
          /\ idx[p] = j =>
               /\ pc[p] \in {"Processing", "Failed"}
               /\ pc[p] = "Failed" =>
                    /\ status[p].code = "INVALID_ARGUMENT"
                    /\ status[p].name = cfg[p][j].primitive_name
                    /\ status[p].msg =
                         "A non-standard primitive, use directly Config::Register<P>(KeyTypeEntry&)."

\* "CustomMac" in a descriptor that passes Validate, after an entry that was
\* registered.
C3_Witness ==
    /\ InRegister(Main) /\ pc[Main] = "Failed" /\ idx[Main] = 2
    /\ cfg[Main][2].primitive_name = CustomMac
    /\ Validate(cfg[Main][2]) = OK
    /\ Len(log[Main]) = 2

----------------------------------------------------------------------------
\* C4: in the log of a Register call every wrapper invocation directly
\* follows the successful key-manager invocation of the same entry and the
\* same family, every key-manager invocation but the first directly follows
\* the successful wrapper invocation of the entry before, and nothing follows
\* a failed invocation.
C4_KeyManagerBeforeWrapper ==
    \A p \in Procs : InRegister(p) =>
      \A k \in 1..Len(log[p]) :
        LET r == log[p][k]
        IN  /\ r.site = WrapperSite =>
                 /\ k > 1
                 /\ log[p][k-1].site = KeyManagerSite
                 /\ log[p][k-1].entry = r.entry
                 /\ log[p][k-1].action = r.action
                 /\ IsOk(log[p][k-1].status)
            /\ r.site = KeyManagerSite =>
                 IF k = 1 THEN r.entry = 1
                 ELSE /\ log[p][k-1].site = WrapperSite
                      /\ log[p][k-1].entry + 1 = r.entry
                      /\ IsOk(log[p][k-1].status)
            /\ ~IsOk(r.status) => (k = Len(log[p]) /\ pc[p] = "Failed")

\* The key-manager step of the second entry has failed.
C4_Witness ==
    /\ InRegister(Main) /\ pc[Main] = "Failed" /\ idx[Main] = 2
    /\ Len(log[Main]) = 3
    /\ log[Main][3].site = KeyManagerSite
    /\ ~IsOk(log[Main][3].status)

----------------------------------------------------------------------------
\* The fields Validate checks, in the order it checks them.
CheckedFields == <<"type_url", "primitive_name", "catalogue_name">>

FieldEmpty(e, f) ==
    IF f = "type_url" THEN e.type_url = ""
    ELSE IF f = "primitive_name" THEN Len(e.primitive_name) = 0
    ELSE e.catalogue_name = ""

\* C5: Validate returns OK exactly when none of type_url, primitive_name,
\* catalogue_name is empty, and otherwise the invalid-argument error
\* "Missing <field>." of the first empty field in that order; the three
\* errors differ.
C5_ValidateFirstMissing ==
    \A p \in Procs : op[p] \in {"Validate", "ValidateBuilt"} =>
      LET e == entry[p]
          empty == {i \in 1..3 : FieldEmpty(e, CheckedFields[i])}
      IN  /\ (empty = {}) <=> (status[p] = OK)
          /\ empty # {} =>
               LET first == CHOOSE i \in empty : \A m \in empty : i <= m
               IN  /\ status[p].code = "INVALID_ARGUMENT"
                   /\ status[p].msg = "Missing " \o CheckedFields[first] \o "."
          /\ Cardinality({MissingTypeUrl, MissingPrimitiveName,
                          MissingCatalogueName}) = 3

\* primitive_name and catalogue_name both empty: primitive_name is reported.
C5_Witness ==
    /\ op[Main] = "Validate"
    /\ entry[Main].type_url # ""
    /\ entry[Main].primitive_name = <<>>
    /\ entry[Main].catalogue_name = ""
    /\ status[Main].msg = "Missing primitive_name."

----------------------------------------------------------------------------
\* The dispatch chain behind a call site.
DispatchAt(site, lname) ==
    IF site = KeyManagerSite THEN RegisterDispatch(lname)
    ELSE WrapperDispatch(lname)

HybridEncrypt == <<"H","y","b","r","i","d","E","n","c","r","y","p","t">>

\* What each step dispatches every known name of the inputs to.
KnownDispatch ==
    [site \in {KeyManagerSite, WrapperSite} |->
       [b \in KnownNames |-> DispatchAt(site, AsciiStrToLower(b))]]

KnownFamily == [b \in KnownNames |-> ClaimFamily(b)]

\* C6: every invocation a Register call makes for an entry is the one the
\* same step makes for each name of the same family, in any letter case, and
\* for no name of another family: "HybridEncrypt" and "hybriddecrypt" give
\* the same calls, "publickeysign" and "publickeyverify" too, and names of
\* different families never share a call.
C6_AliasesShareCalls ==
    \A p \in Procs : InRegister(p) =>
      \A k \in 1..Len(log[p]) :
        LET r == log[p][k]
            a == cfg[p][r.entry].primitive_name
        IN  /\ a \in KnownNames
            /\ \A b \in KnownNames :
                 (KnownFamily[b] = KnownFamily[a])
                   <=> (KnownDispatch[r.site][b] = r.action)

\* "hybriddecrypt" after "HybridEncrypt"-cased names: both steps of a
\* hybriddecrypt entry have called HybridConfig.
C6_Witness ==
    /\ InRegister(Main) /\ pc[Main] = "Succeeded"
    /\ Len(cfg[Main]) = 2
    /\ cfg[Main][2].primitive_name = hybriddecrypt
    /\ cfg[Main][1].primitive_name = Aead
    /\ log[Main][3].action = "HybridConfig"
    /\ log[Main][4].action = "HybridConfig"
    /\ DispatchAt(KeyManagerSite, AsciiStrToLower(HybridEncrypt)) = "HybridConfig"
    /\ log[Main][1].action = "AeadConfig"

----------------------------------------------------------------------------
\* C7: a registry action that fails during Register is the last invocation
\* of the call, the call has failed with exactly the status that invocation
\* returned, and no step of an entry is ever invoked twice in one call.
C7_PropagatesNoRetry ==
    \A p \in Procs : InRegister(p) =>
      /\ \A k \in 1..Len(log[p]) :
           ~IsOk(log[p][k].status) =>
             /\ k = Len(log[p])
             /\ pc[p] = "Failed"
             /\ status[p] = log[p][k].status
      /\ \A j \in 1..Len(cfg[p]) :
           /\ Cardinality(InvocationsOf(p, j, KeyManagerSite)) <= 1
           /\ Cardinality(InvocationsOf(p, j, WrapperSite)) <= 1
      /\ (pc[p] = "Failed" /\ ~FailedAtDispatch(p)) =>
           /\ status[p] = LastInvocation(p).status
           /\ status[p] \in RegistryErrors

\* The wrapper step of the first entry has failed with ALREADY_EXISTS.
C7_Witness ==
    /\ InRegister(Main) /\ pc[Main] = "Failed"
    /\ Len(log[Main]) = 2
    /\ log[Main][2].site = WrapperSite
    /\ log[Main][2].status.code = "ALREADY_EXISTS"
    /\ status[Main].code = "ALREADY_EXISTS"

----------------------------------------------------------------------------
\* C9: RegisterWrapper called directly with one of the eight lower-case names
\* invokes the Register() of the family of that name exactly once and returns
\* what that invocation returned, OK with the family registered when it
\* succeeded; and in every state outside a call, whatever was called before,
\* the call is possible for each of the eight names and can return OK.
C9_DirectWrapper ==
    \A p \in Procs :
      /\ (op[p] = "RegisterWrapper"
            /\ \E i \in 1..Len(ClaimNames) : warg[p] = ClaimNames[i]) =>
             /\ Len(log[p]) = 1
             /\ log[p][1].site = WrapperSite
             /\ log[p][1].action = ClaimFamily(warg[p])
             /\ status[p] = log[p][1].status
             /\ IsOk(log[p][1].status) =>
                  (status[p] = OK /\ ClaimFamily(warg[p]) \in registry)
      /\ (p = Main /\ Quiescent(p)) =>
           \A i \in 1..Len(ClaimNames) :
             /\ ClaimNames[i] \in WrapperNames
             /\ OK \in WrapperResults(registry, ClaimNames[i], FALSE)
             /\ ENABLED ( /\ WrapperReturns(p, ClaimNames[i], OK)
                          /\ registry' = registry \cup {ClaimFamilies[i]} )

\* RegisterWrapper("aead") as the first call of the process.
C9_Witness ==
    /\ op[Main] = "RegisterWrapper" /\ warg[Main] = aead
    /\ fresh
    /\ status[Main] = OK
    /\ registry = {"AeadConfig"}
    /\ Len(log[Main]) = 1

----------------------------------------------------------------------------
Running(p) == InRegister(p) /\ pc[p] \in {"Processing", "Wrapper"}

Terminal(p) == InRegister(p) /\ pc[p] \in {"Succeeded", "Failed"}

AllInvocationsOk(p) == \A k \in 1..Len(log[p]) : IsOk(log[p][k].status)

\* The states of a Register call: the loop is at entry idx having completed
\* the idx - 1 entries before it, once each; Succeeded exactly when every
\* entry names a known family and every invocation succeeded (at once and
\* without invocation for an empty configuration); Failed at the first entry
\* that fails; a call that has ended takes no further step.
C8_State ==
    \A p \in Procs : InRegister(p) =>
      LET n == Len(cfg[p])
      IN  /\ pc[p] \in {"Processing", "Wrapper", "Succeeded", "Failed"}
          /\ pc[p] # "Succeeded" => idx[p] \in 1..n
          /\ pc[p] = "Processing" => Len(log[p]) = 2 * (idx[p] - 1)
          /\ pc[p] = "Wrapper" => Len(log[p]) = 2 * idx[p] - 1
          /\ pc[p] # "Failed" => AllInvocationsOk(p)
          /\ pc[p] = "Succeeded" <=>
               /\ Terminal(p)
               /\ \A j \in 1..n : ClaimKnown(cfg[p][j].primitive_name)
               /\ Len(log[p]) = 2 * n
               /\ AllInvocationsOk(p)
          /\ pc[p] = "Succeeded" => (status[p] = OK /\ idx[p] = n)
          /\ n = 0 => (pc[p] = "Succeeded" /\ log[p] = <<>>)
          /\ pc[p] = "Failed" =>
               /\ ~IsOk(status[p])
               /\ \A j \in 1..(idx[p] - 1) :
                    ClaimKnown(cfg[p][j].primitive_name)
               /\ Len(log[p]) \in {2 * (idx[p] - 1), 2 * idx[p] - 1, 2 * idx[p]}
               /\ \A k \in 1..(Len(log[p]) - 1) : IsOk(log[p][k].status)
               /\ \/ ~ClaimKnown(cfg[p][idx[p]].primitive_name)
                  \/ (Len(log[p]) > 0 /\ ~IsOk(LastInvocation(p).status))
          /\ Terminal(p) => ~ENABLED RegisterStep(p)

\* The steps of a Register call: Processing(i) to the wrapper step of i or
\* to Failed(i); from the wrapper step of i to Processing(i + 1), to
\* Succeeded or to Failed(i); a call begins at the first entry.
C8_Step ==
    \A p \in Procs :
      /\ Running(p) =>
           /\ InRegister(p)' /\ cfg'[p] = cfg[p]
           /\ pc[p] = "Processing" =>
                (idx'[p] = idx[p] /\ pc'[p] \in {"Processing", "Wrapper", "Failed"})
           /\ pc[p] = "Processing" /\ pc'[p] = "Processing" => UNCHANGED vars
           /\ pc[p] = "Wrapper" =>
                \/ pc'[p] = "Processing" /\ idx'[p] = idx[p] + 1
                \/ pc'[p] \in {"Wrapper", "Succeeded", "Failed"} /\ idx'[p] = idx[p]
           /\ pc[p] = "Wrapper" /\ pc'[p] = "Wrapper" => UNCHANGED vars
      /\ (Quiescent(p) /\ Running(p)') =>
           (pc'[p] = "Processing" /\ idx'[p] = 1 /\ log'[p] = <<>>)

\* C8: every Register call goes from the caller's idle state through
\* Processing(1), Processing(2), ... in increasing order, each entry once,
\* and always ends, in Succeeded (exactly when all entries name a known family
\* and every registry action succeeded) or in Failed at the first failing
\* entry.
C8_RegisterStateMachine ==
    /\ []C8_State
    /\ [][C8_Step]_vars
    /\ \A p \in Procs : Running(p) ~> Terminal(p)

\* A call on three entries that has succeeded.
C8_Witness ==
    /\ InRegister(Main) /\ pc[Main] = "Succeeded"
    /\ Len(cfg[Main]) = 3 /\ idx[Main] = 3 /\ Len(log[Main]) = 6

----------------------------------------------------------------------------
(* A Register call and the caller's retry of the batch, over a registry   *)
(* whose actions are idempotent                                           *)

\* What a caller re-submits after a call: the same configuration, or, after a
\* failure, the configuration with the entry that failed replaced.
RetryConfigs(p) ==
    {cfg[p]}
    \cup (IF pc[p] = "Failed"
          THEN {[cfg[p] EXCEPT ![idx[p]] = EntryOf(nm)] : nm \in PrimitiveNames}
          ELSE {})

\* The caller calls Register again after its first call has returned.
Retry(p) ==
    /\ op[p] = "Register" /\ pc[p] \in {"Succeeded", "Failed"}
    /\ mode[p] = "first"
    /\ \E c \in RetryConfigs(p) :
         /\ StartRegister(p, c)
         /\ mode' = [mode EXCEPT ![p] = IF c = cfg[p] THEN "same" ELSE "fixed"]
    /\ prev' = [prev EXCEPT ![p] =
                  [pc |-> pc[p], idx |-> idx[p], calls |-> Len(log[p]),
                   registry |-> registry]]
    /\ UNCHANGED base

\* The registry as the process starts with it, or with one family registered
\* by an earlier call.
RetryInit == \E reg \in {{}, {"AeadConfig"}} : Idle(reg)

RetryNext ==
    \E p \in {Main} :
        \/ FirstRegisterCall(p)
        \/ Retry(p)
        \/ KeyManagerStep(p, TRUE)
        \/ WrapperStep(p, TRUE)

RetrySpec == RetryInit /\ [][RetryNext]_vars

\* The registry after a Register call on c, begun with the registry reg, in
\* which every invocation succeeds.
RECURSIVE RegisterAll(_, _)
RegisterAll(reg, c) ==
    IF c = <<>> THEN reg
    ELSE LET lname == AsciiStrToLower(Head(c).primitive_name)
             afterKm == FamilyRegister(reg, RegisterDispatch(lname), OK)
         IN  RegisterAll(FamilyRegister(afterKm, WrapperDispatch(lname), OK),
                         Tail(c))

\* C10: with idempotent registry actions, a second Register call on the same
\* configuration after a successful one succeeds and leaves the registry as
\* the first call left it; a second call that ends as the first one did
\* leaves the registry as the first call left it; and a call that succeeds on
\* the batch with the failed entry replaced leaves the registry as one
\* successful call on that batch from the registry before the failed call.
C10_RetrySafe ==
    \A p \in Procs : InRegister(p) =>
      /\ (mode[p] = "same" /\ prev[p].pc = "Succeeded") =>
           /\ registry = prev[p].registry
           /\ pc[p] # "Failed"
           /\ Terminal(p) => registry = RegisterAll(base[p], cfg[p])
      /\ (mode[p] = "same" /\ Terminal(p) /\ pc[p] = prev[p].pc
            /\ idx[p] = prev[p].idx /\ Len(log[p]) = prev[p].calls) =>
           registry = prev[p].registry
      /\ (mode[p] = "fixed" /\ pc[p] = "Succeeded") =>
           /\ prev[p].pc = "Failed"
           /\ registry = RegisterAll(base[p], cfg[p])

\* The key-manager step of the second of three entries failed, the entry was
\* replaced by one of another family, and the retry has succeeded.
C10_Witness ==
    /\ InRegister(Main) /\ pc[Main] = "Succeeded" /\ mode[Main] = "fixed"
    /\ prev[Main].pc = "Failed" /\ prev[Main].idx = 2 /\ prev[Main].calls = 3
    /\ Len(cfg[Main]) = 3
    /\ cfg[Main][2].primitive_name = mac
    /\ base[Main] = {}
    /\ registry = {"AeadConfig", "MacConfig", "HybridConfig"}

----------------------------------------------------------------------------
(* Register calls of several callers running concurrently over the shared *)
(* registry, whose actions are atomic and idempotent.  Register holds no  *)
(* lock and has only local variables: the callers' steps interleave at    *)
(* the registry actions.                                                   *)

Hybrid2 == <<EntryOf(Aead), EntryOf(hybriddecrypt)>>

\* The configurations of the concurrent callers.
ConcConfigs ==
    { <<EntryOf(Aead)>>,
      Hybrid2,
      <<EntryOf(hybriddecrypt), EntryOf(Aead)>>,
      <<EntryOf(mac), EntryOf(CustomMac)>> }

\* A caller's one Register call.
ConcRegisterCall(p) ==
    /\ op[p] = "none"
    /\ \E c \in ConcConfigs : StartRegister(p, c)
    /\ base' = [base EXCEPT ![p] = registry]
    /\ mode' = [mode EXCEPT ![p] = "first"]
    /\ prev' = [prev EXCEPT ![p] = NoPrev]

ConcNext ==
    \E p \in Procs :
        \/ ConcRegisterCall(p)
        \/ KeyManagerStep(p, TRUE)
        \/ WrapperStep(p, TRUE)

ConcSpec == Init /\ [][ConcNext]_vars

\* The families the known names of a configuration resolve to.
FamiliesNamed(c) ==
    {ClaimFamily(c[j].primitive_name) :
       j \in {i \in 1..Len(c) : ClaimKnown(c[i].primitive_name)}}

Callers == {p \in Procs : InRegister(p)}

\* Another caller than Main.
Other == CHOOSE p \in Procs : p # Main

\* C11: with concurrent Register calls over an atomic, idempotent registry,
\* every call's own invocations are in the stated order under every
\* interleaving (entries in order, the key-manager invocation of an entry
\* first and successful, then its wrapper invocation, nothing after a
\* failure); the registry holds exactly the families some call's successful
\* invocation registered, each a family named by a configuration; and when
\* all the calls made have succeeded, the registry is the set of the families
\* named by their configurations.
C11_ConcurrentRegister ==
    /\ \A p \in Callers :
         \A k \in 1..Len(log[p]) :
           LET r == log[p][k]
           IN  /\ r.entry = (k + 1) \div 2
               /\ r.site = IF k % 2 = 1 THEN KeyManagerSite ELSE WrapperSite
               /\ r.action = ClaimFamily(cfg[p][r.entry].primitive_name)
               /\ k > 1 => IsOk(log[p][k-1].status)
               /\ ~IsOk(r.status) => pc[p] = "Failed"
    /\ registry =
         {f \in FamilyConfigs :
            \E p \in Callers : \E k \in 1..Len(log[p]) :
              log[p][k].action = f /\ IsOk(log[p][k].status)}
    /\ registry \subseteq UNION {FamiliesNamed(cfg[p]) : p \in Callers}
    /\ (\A p \in Callers : pc[p] = "Succeeded") =>
         registry = UNION {FamiliesNamed(cfg[p]) : p \in Callers}

\* Two calls that overlapped have both succeeded: the other caller's call
\* began while Main's was between its first and its second entry.
C11_Witness ==
    /\ pc[Main] = "Succeeded" /\ pc[Other] = "Succeeded"
    /\ cfg[Main] = Hybrid2 /\ base[Main] = {}
    /\ cfg[Other] = <<EntryOf(hybriddecrypt), EntryOf(Aead)>>
    /\ base[Other] = {"AeadConfig"}
    /\ registry = {"AeadConfig", "HybridConfig"}

----------------------------------------------------------------------------
(* A Register call, and then a Register call of another caller on a       *)
(* configuration with the same primitive names and other values in the    *)
(* other fields, some of them empty                                       *)

\* Values of the fields of an entry other than primitive_name.
EntryVariants ==
    { [catalogue_name |-> "SomeCatalogue", type_url |-> SomeUrl,
       key_manager_version |-> 0, new_key_allowed |-> TRUE],
      [catalogue_name |-> "", type_url |-> SomeUrl,
       key_manager_version |-> 0, new_key_allowed |-> TRUE],
      [catalogue_name |-> "SomeCatalogue", type_url |-> "",
       key_manager_version |-> 1, new_key_allowed |-> FALSE] }

\* The configurations that differ from c at most in the fields other than
\* primitive_name.
VariantsOf(c) ==
    { [i \in 1..Len(c) |->
         KeyTypeEntry(v[i].catalogue_name, c[i].primitive_name, v[i].type_url,
                      v[i].key_manager_version, v[i].new_key_allowed)] :
      v \in [1..Len(c) -> EntryVariants] }

\* Once Main's call has returned, the other caller calls Register on a
\* variant of Main's configuration.
VariantCall(p) ==
    /\ p # Main /\ op[p] = "none"
    /\ InRegister(Main) /\ pc[Main] \in {"Succeeded", "Failed"}
    /\ \E c \in VariantsOf(cfg[Main]) : StartRegister(p, c)
    /\ base' = [base EXCEPT ![p] = registry]
    /\ mode' = [mode EXCEPT ![p] = "first"]
    /\ prev' = [prev EXCEPT ![p] = NoPrev]

VariantNext ==
    \/ FirstRegisterCall(Main)
    \/ VariantCall(Other)
    \/ \E p \in {Main, Other} :
         \/ KeyManagerStep(p, FALSE)
         \/ WrapperStep(p, FALSE)

VariantSpec == Init /\ [][VariantNext]_vars

\* The first n invocations of q's call returned what the first n of p's did.
SameRegistryResults(p, q, n) ==
    /\ n <= Len(log[p]) /\ n <= Len(log[q])
    /\ \A k \in 1..n : log[p][k].status = log[q][k].status

Min(a, b) == IF a <= b THEN a ELSE b

\* C12: a Register call's invocations and result are those of the call on
\* the configuration with the same primitive names: as long as the registry
\* actions return to both what they returned to the other, the two calls
\* make the same invocations and end alike, with the same status, whatever
\* the other fields of the entries hold; Register returns nothing but OK, what
\* a registry action returned, or its own error for a name it does not know,
\* and so never a Validate error, even for entries Validate rejects.
C12_NamesOnly ==
    /\ \A p \in Procs : InRegister(p) =>
         /\ \A k \in 1..Len(log[p]) :
              log[p][k].status \in {OK} \cup RegistryErrors
         /\ pc[p] = "Succeeded" => status[p] = OK
         /\ pc[p] = "Failed" =>
              \/ status[p] \in RegistryErrors
              \/ \E j \in 1..Len(cfg[p]) :
                   status[p] = NonStandardPrimitive(cfg[p][j].primitive_name,
                                 AsciiStrToLower(cfg[p][j].primitive_name))
    /\ InRegister(Other) =>
         LET n == Min(Len(log[Main]), Len(log[Other]))
         IN  /\ cfg[Other] \in VariantsOf(cfg[Main])
             /\ SameRegistryResults(Main, Other, n) =>
                  /\ Len(log[Other]) <= Len(log[Main])
                  /\ \A k \in 1..n : log[Other][k] = log[Main][k]
                  /\ Terminal(Other) =>
                       /\ log[Other] = log[Main]
                       /\ pc[Other] = pc[Main]
                       /\ idx[Other] = idx[Main]
                       /\ status[Other].code = status[Main].code
                       /\ status[Other] = status[Main]

\* A call on two entries with an empty type_url, which Validate rejects, has
\* succeeded as the call on the valid entries of the same names did, with the
\* same four invocations.
C12_Witness ==
    /\ InRegister(Other) /\ pc[Other] = "Succeeded" /\ pc[Main] = "Succeeded"
    /\ Len(cfg[Other]) = 2
    /\ cfg[Other][1].type_url = "" /\ cfg[Other][2].catalogue_name = ""
    /\ Validate(cfg[Other][1]) = MissingTypeUrl
    /\ Validate(cfg[Other][2]) = MissingCatalogueName
    /\ Validate(cfg[Main][1]) = OK /\ Validate(cfg[Main][2]) = OK
    /\ log[Other] = log[Main] /\ Len(log[Other]) = 4

----------------------------------------------------------------------------
\* A caller holding the entry GetTinkKeyTypeEntry built from args.
Built(p) == op[p] \in {"GetTinkKeyTypeEntry", "ValidateBuilt"}

\* C13: the entry GetTinkKeyTypeEntry builds has the type_url
\* "type.googleapis.com/google.crypto.tink." followed by key_proto_name, and
\* the four other arguments in its four other fields; for ("SomeCatalogue",
\* "Aead", "AesGcmKey", 0, true) the type_url is
\* "type.googleapis.com/google.crypto.tink.AesGcmKey"; and Validate of the
\* built entry returns OK whenever catalogue_name and primitive_name are not
\* empty.
C13_BuildDescriptor ==
    \A p \in Procs : Built(p) =>
      LET a == args[p]
          e == entry[p]
      IN  /\ e.type_url = "type.googleapis.com/google.crypto.tink." \o a.key_proto_name
          /\ e.catalogue_name = a.catalogue_name
          /\ e.primitive_name = a.primitive_name
          /\ e.key_manager_version = a.key_manager_version
          /\ e.new_key_allowed = a.new_key_allowed
          /\ DOMAIN e = {"catalogue_name", "primitive_name", "type_url",
                         "key_manager_version", "new_key_allowed"}
          /\ a = [catalogue_name |-> "SomeCatalogue", primitive_name |-> Aead,
                  key_proto_name |-> "AesGcmKey", key_manager_version |-> 0,
                  new_key_allowed |-> TRUE] =>
               e.type_url = "type.googleapis.com/google.crypto.tink.AesGcmKey"
          /\ (op[p] = "ValidateBuilt" /\ a.catalogue_name # ""
                /\ a.primitive_name # <<>>) => status[p] = OK

\* GetTinkKeyTypeEntry("SomeCatalogue", "Aead", "AesGcmKey", 0, true) has been
\* built and has passed Validate.
C13_Witness ==
    /\ op[Main] = "ValidateBuilt" /\ status[Main] = OK
    /\ args[Main].catalogue_name = "SomeCatalogue"
    /\ args[Main].primitive_name = Aead
    /\ args[Main].key_proto_name = "AesGcmKey"
    /\ args[Main].key_manager_version = 0
    /\ args[Main].new_key_allowed
    /\ entry[Main].type_url = "type.googleapis.com/google.crypto.tink.AesGcmKey"

----------------------------------------------------------------------------
\* The names of the kinds written with hyphens.
HyphenNames ==
    { <<"d","e","t","e","r","m","i","n","i","s","t","i","c","-","a","e","a","d">>,
      <<"h","y","b","r","i","d","-","e","n","c","r","y","p","t">>,
      <<"h","y","b","r","i","d","-","d","e","c","r","y","p","t">>,
      <<"p","u","b","l","i","c","-","k","e","y","-","s","i","g","n">>,
      <<"p","u","b","l","i","c","-","k","e","y","-","v","e","r","i","f","y">>,
      <<"s","t","r","e","a","m","i","n","g","-","a","e","a","d">> }

\* The eight names of the kinds as written with hyphens where they have
\* several words.
HyphenKinds == {mac, aead} \cup HyphenNames

\* What Register's chain makes of each hyphenated name.
HyphenDispatch == [nm \in HyphenNames |-> RegisterDispatch(AsciiStrToLower(nm))]

\* Whether the loop has got past entry j of p's call, or is at its wrapper step.
Resolved(p, j) ==
    \/ j < idx[p]
    \/ pc[p] = "Succeeded"
    \/ (j = idx[p] /\ pc[p] = "Wrapper")
    \/ (j = idx[p] /\ pc[p] = "Failed" /\ ~FailedAtDispatch(p))

\* Whether p's call was refused at entry j by the else branch.
Refused(p, j) ==
    /\ j = idx[p] /\ pc[p] = "Failed" /\ FailedAtDispatch(p)
    /\ status[p] = NonStandardPrimitive(cfg[p][j].primitive_name,
                                        AsciiStrToLower(cfg[p][j].primitive_name))

\* Whether a name is, ignoring case, one of the hyphenated kinds.
HyphenKind(nm) == \E h \in HyphenKinds : EqualsIgnoreCase(nm, h)

\* C14 (as stated): the names Register recognizes are exactly mac, aead,
\* deterministic-aead, hybrid-encrypt, hybrid-decrypt, public-key-sign,
\* public-key-verify, streaming-aead, in any letter case: an entry the loop
\* has dealt with was resolved if its name is one of these and refused if it
\* is not.
C14_HyphenatedKinds ==
    \A p \in Procs : InRegister(p) =>
      \A j \in 1..Len(cfg[p]) :
        (Resolved(p, j) \/ Refused(p, j)) =>
          (Resolved(p, j) <=> HyphenKind(cfg[p][j].primitive_name))

\* C14 (amended): the names Register recognizes are exactly those that,
\* ignoring the case of ASCII letters, are one of mac, aead, deterministicaead,
\* hybridencrypt, hybriddecrypt, publickeysign, publickeyverify,
\* streamingaead: an entry the loop has dealt with was resolved, its family's
\* Register() called, exactly if its name is one of these, and was otherwise
\* refused by the else branch with INVALID_ARGUMENT before any registry call;
\* the hyphenated names are among the refused.
C14_RecognizedNames ==
    /\ \A nm \in HyphenNames : HyphenDispatch[nm] = NoConfig /\ ~ClaimKnown(nm)
    /\ \A p \in Procs : InRegister(p) =>
         \A j \in 1..Len(cfg[p]) :
           LET nm == cfg[p][j].primitive_name
           IN  /\ (Resolved(p, j) \/ Refused(p, j)) =>
                    (Resolved(p, j) <=> ClaimKnown(nm))
               /\ Resolved(p, j) =>
                    \E k \in InvocationsOf(p, j, KeyManagerSite) :
                      log[p][k].action = ClaimFamily(nm)
               /\ (j = idx[p] /\ pc[p] = "Failed" /\ ~ClaimKnown(nm)) =>
                    (Refused(p, j) /\ status[p].code = "INVALID_ARGUMENT")
               /\ (j > idx[p] \/ (j = idx[p] /\ pc[p] = "Processing")) =>
                    (~Resolved(p, j) /\ ~Refused(p, j))

\* Register on an entry named "deterministic-aead" has been refused without
\* a registry call.
C14_Witness ==
    /\ InRegister(Main) /\ pc[Main] = "Failed" /\ Len(cfg[Main]) = 1
    /\ cfg[Main][1].primitive_name \in HyphenNames
    /\ Refused(Main, 1)
    /\ log[Main] = <<>>

----------------------------------------------------------------------------
\* A step in which p's Validate call is made and returns: a call on a
\* descriptor of the caller's, or on the entry the caller has built.
ValidateReturns(p) ==
    /\ op'[p] \in {"Validate", "ValidateBuilt"}
    /\ <<op[p], entry[p], status[p], pc[p]>> # <<op'[p], entry'[p], status'[p], pc'[p]>>

\* The result of Validate for every descriptor it is called with, as a table.
ValidateResult ==
    [d \in Descriptors \cup {GetTinkKeyTypeEntry(a.catalogue_name, a.primitive_name,
                                                a.key_proto_name, a.key_manager_version,
                                                a.new_key_allowed) : a \in BuildArgs}
       |-> Validate(d)]

\* C15: a Validate call leaves the registry as it is and invokes no registry
\* action, leaves the entry it is given as it is, and its result is the one
\* the descriptor has in every other state, whatever the registry holds and
\* whatever Register or RegisterWrapper calls came before.
C15_ValidateNoSideEffects ==
    /\ [](\A p \in Procs : op[p] \in {"Validate", "ValidateBuilt"} =>
            /\ status[p] = ValidateResult[entry[p]]
            /\ log[p] = <<>>)
    /\ [][\A p \in Procs : ValidateReturns(p) =>
            /\ registry' = registry
            /\ log'[p] = <<>>
            /\ \A q \in Procs \ {p} : log'[q] = log[q]
            /\ op'[p] = "ValidateBuilt" => entry'[p] = entry[p]
            /\ status'[p] = ValidateResult[entry'[p]]]_vars

\* Validate has rejected a descriptor after Register calls have registered
\* two families.
C15_Witness ==
    /\ op[Main] = "Validate"
    /\ registry = {"AeadConfig", "HybridConfig"}
    /\ entry[Main].type_url = ""
    /\ status[Main] = MissingTypeUrl

----------------------------------------------------------------------------
\* The positions in p's call log of the invocations of a family for entry j.
ActionsFor(p, j, family) ==
    {k \in 1..Len(log[p]) : log[p][k].entry = j /\ log[p][k].action = family}

\* C16: both steps of an entry invoke the same action, the Register() of the
\* family config the name resolves to: the wrapper step about to run
\* dispatches to the action the key-manager step has just invoked, every
\* entry the loop has completed has exactly two invocations, both of its
\* family's Register() and none of anything else, and a Register call that
\* has succeeded on n entries has made exactly 2n invocations.
C16_SameActionTwice ==
    /\ \A b \in KnownNames :
         KnownDispatch[KeyManagerSite][b] = KnownDispatch[WrapperSite][b]
    /\ \A p \in Procs : InRegister(p) =>
         /\ pc[p] = "Wrapper" =>
              /\ Len(log[p]) > 0
              /\ WrapperDispatch(primitive_name[p]) = LastInvocation(p).action
              /\ LastInvocation(p).site = KeyManagerSite
         /\ \A j \in 1..Len(cfg[p]) :
              (j < idx[p] \/ pc[p] = "Succeeded") =>
                LET fam == ClaimFamily(cfg[p][j].primitive_name)
                IN  /\ Cardinality(ActionsFor(p, j, fam)) = 2
                    /\ \A k \in 1..Len(log[p]) :
                         log[p][k].entry = j => log[p][k].action = fam
                    /\ {log[p][k].site : k \in ActionsFor(p, j, fam)}
                         = {KeyManagerSite, WrapperSite}
         /\ pc[p] = "Succeeded" => Len(log[p]) = 2 * Len(cfg[p])
         /\ \A k \in 1..Len(log[p]) : log[p][k].action \in FamilyConfigs

\* A call on three entries has succeeded with six invocations: AeadConfig's
\* Register() twice for the second entry, HybridConfig's twice for the third.
C16_Witness ==
    /\ InRegister(Main) /\ pc[Main] = "Succeeded"
    /\ Len(cfg[Main]) = 3 /\ Len(log[Main]) = 6
    /\ cfg[Main][1].primitive_name = Aead
    /\ cfg[Main][2].primitive_name = Aead
    /\ cfg[Main][3].primitive_name = hybriddecrypt
    /\ Cardinality(ActionsFor(Main, 2, "AeadConfig")) = 2
    /\ Cardinality(ActionsFor(Main, 3, "HybridConfig")) = 2

----------------------------------------------------------------------------
LowerCaseNames == {ClaimNames[i] : i \in 1..Len(ClaimNames)}

\* A step in which p's direct RegisterWrapper call is made and returns.
DirectWrapperReturns(p) ==
    /\ op'[p] = "RegisterWrapper"
    /\ <<op[p], warg[p], status[p], log[p], pc[p]>>
         # <<op'[p], warg'[p], status'[p], log'[p], pc'[p]>>

\* C17: RegisterWrapper compares its argument as it is given: a direct call
\* invokes a registry action, and can return OK, only for one of the eight
\* names in lower case; for every other argument, the known names with an
\* upper-case letter among them, it returns its INVALID_ARGUMENT error with no
\* invocation and the registry unchanged, though Register resolves those same
\* names to their families.
C17_WrapperNotNormalized ==
    /\ [](/\ \A b \in KnownNames \ LowerCaseNames :
               /\ KnownDispatch[KeyManagerSite][b] = KnownFamily[b]
               /\ WrapperDispatch(b) = NoConfig
          /\ \A p \in Procs : op[p] = "RegisterWrapper" =>
               /\ (warg[p] \in LowerCaseNames) <=> (log[p] # <<>>)
               /\ IsOk(status[p]) => warg[p] \in LowerCaseNames
               /\ warg[p] \notin LowerCaseNames =>
                    /\ status[p] = NonStandardWrapper(warg[p])
                    /\ status[p].code = "INVALID_ARGUMENT"
                    /\ status[p].msg =
                         "Cannot register primitive wrapper for non-standard primitive (call Registry::RegisterPrimitiveWrapper directly)")
    /\ [][\A p \in Procs :
            (DirectWrapperReturns(p) /\ warg'[p] \notin LowerCaseNames) =>
               registry' = registry]_vars

\* RegisterWrapper("HybridEncrypt") as the first call of the process has
\* returned the error and registered nothing.
C17_Witness ==
    /\ op[Main] = "RegisterWrapper" /\ warg[Main] = HybridEncrypt
    /\ status[Main].code = "INVALID_ARGUMENT"
    /\ log[Main] = <<>>
    /\ fresh /\ registry = {}
    /\ KnownDispatch[KeyManagerSite][HybridEncrypt] = "HybridConfig"

----------------------------------------------------------------------------
WrapperErrorMessage ==
    "Cannot register primitive wrapper for non-standard primitive (call Registry::RegisterPrimitiveWrapper directly)"

\* C18: inside Register, RegisterWrapper is called with the entry's name in
\* lower case, which the key-manager dispatch has accepted and which its own
\* chain accepts too, so no Register call ever holds or returns
\* RegisterWrapper's non-standard-primitive error; a call that fails at an
\* entry whose name is unknown fails with the error of Register's else branch,
\* with no invocation made for that entry.
C18_NoWrapperErrorInRegister ==
    \A p \in Procs : InRegister(p) =>
      /\ status[p].msg # WrapperErrorMessage
      /\ \A nm \in PrimitiveNames : status[p] # NonStandardWrapper(nm)
      /\ pc[p] = "Wrapper" =>
           /\ primitive_name[p] = AsciiStrToLower(cfg[p][idx[p]].primitive_name)
           /\ primitive_name[p] \in LowerCaseNames
           /\ RegisterDispatch(primitive_name[p]) # NoConfig
           /\ WrapperDispatch(primitive_name[p]) # NoConfig
           /\ NonStandardWrapper(primitive_name[p])
                \notin WrapperResults(registry, primitive_name[p], FALSE)
      /\ (pc[p] = "Failed" /\ ~ClaimKnown(cfg[p][idx[p]].primitive_name)) =>
           /\ FailedAtDispatch(p)
           /\ status[p] = NonStandardPrimitive(cfg[p][idx[p]].primitive_name,
                            AsciiStrToLower(cfg[p][idx[p]].primitive_name))
           /\ Len(log[p]) = 2 * (idx[p] - 1)
      /\ (pc[p] = "Failed" /\ ClaimKnown(cfg[p][idx[p]].primitive_name)) =>
           status[p] \in RegistryErrors

\* The wrapper step of an entry named "Aead" is about to call
\* RegisterWrapper("aead").
C18_Witness ==
    /\ InRegister(Main) /\ pc[Main] = "Wrapper" /\ idx[Main] = 2
    /\ cfg[Main][2].primitive_name = Aead
    /\ primitive_name[Main] = aead
    /\ Len(log[Main]) = 3

----------------------------------------------------------------------------
\* C19: Validate of an entry GetTinkKeyTypeEntry has built never returns the
\* missing-type_url error: the type_url holds at least the prefix, also for an
\* empty key_proto_name; it returns the missing-primitive_name error exactly
\* when primitive_name is empty, the missing-catalogue_name error exactly
\* when primitive_name is not empty and catalogue_name is, and OK otherwise.
C19_BuiltHasTypeUrl ==
    \A p \in Procs :
      /\ Built(p) =>
           /\ entry[p].type_url # ""
           /\ args[p].key_proto_name = "" =>
                entry[p].type_url = "type.googleapis.com/google.crypto.tink."
      /\ op[p] = "ValidateBuilt" =>
           /\ status[p] # MissingTypeUrl
           /\ status[p].msg # "Missing type_url."
           /\ status[p] \in {OK, MissingPrimitiveName, MissingCatalogueName}
           /\ status[p] = MissingPrimitiveName <=> args[p].primitive_name = <<>>
           /\ status[p] = MissingCatalogueName <=>
                (args[p].primitive_name # <<>> /\ args[p].catalogue_name = "")

\* An entry built with an empty key_proto_name and an empty catalogue_name
\* has failed Validate for its catalogue_name.
C19_Witness ==
    /\ op[Main] = "ValidateBuilt"
    /\ args[Main].key_proto_name = "" /\ args[Main].catalogue_name = ""
    /\ args[Main].primitive_name = Aead
    /\ entry[Main].type_url = TypeUrlPrefix
    /\ status[Main] = MissingCatalogueName

====
